---------------------------- MODULE Spec2Model ----------------------------
(***************************************************************************)
(* A model of scrape_mfa.py: the retry supervisor (main), one pipeline     *)
(* pass (scrape_mfa) with its lazy generators unfolded into steps at the   *)
(* I/O boundaries (thread page query, comment-id query, comment batch      *)
(* query, row write), the checkpoint resolver (initial_page_boundary) and  *)
(* the deduplication pass (deduplicate).                                   *)
(*                                                                         *)
(* The archive API is the environment: its threads, their creation times   *)
(* and their comments are fixed in the initial state; every query either   *)
(* answers or raises.  A cell of a TSV row is represented by the value it  *)
(* denotes (the csv encoding is a collaborator of the program).            *)
(***************************************************************************)
EXTENDS Integers, Sequences, FiniteSets, TLC

(* ------------------------------ bounds -------------------------------- *)

\* creation times of the archive's threads are START_TIME + 0..MaxOffset
MaxOffset == 1
\* comments per thread are 1..MaxComments
MaxComments == 2
\* the batch size of scrape_mfa (500 in the source), scaled to the model
ChunkSize == 2
\* how many passes of all runs together may fail after having appended rows
MaxPartialPasses == 1
\* how many times the process is started
MaxRuns == 2
\* SpecDedup: the longest store it starts from
MaxRows == 5
\* SpecPaginate: the largest page_size the paginator is called with
MaxPageSize == 2

(* ------------------------- program constants -------------------------- *)

START_TIME == 1494028860
PAGE_SIZE == 100

OUTPUT_FILE == "./scrape_mfa_results.tsv"
DEDUPLICATED_FILE == "./scrape_mfa_results.deduplicted.tsv"
COLUMNS_FILE == "./columns.tsv"
\* a path given with -o that is not the default
OTHER_FILE == "./other.tsv"

Paths == {OUTPUT_FILE, DEDUPLICATED_FILE, COLUMNS_FILE, OTHER_FILE}

\* the columns of COMMENT_FIELDS the model keeps (the others pass through)
COMMENT_FIELDS == <<"thread_id", "thread_created_utc", "id", "parent_id">>

SLEEPS == <<80, 60, 30, 20, 10, 10, 0>>

SEARCH_TERMS == <<"Simple Questions", "Daily Questions">>

\* a path that does not exist, and a file with its rows
NoFile == [exists |-> FALSE, rows |-> <<>>]
File(rows) == [exists |-> TRUE, rows |-> rows]
\* Python's None
None == <<"None">>
\* chunk's private fill value
Sentinel == [sentinel |-> TRUE]

(* ------------------------------ helpers ------------------------------- *)

Min(a, b) == IF a <= b THEN a ELSE b

Range(s) == {s[i] : i \in 1..Len(s)}

RECURSIVE Flatten(_)
Flatten(ss) == IF ss = <<>> THEN <<>> ELSE Head(ss) \o Flatten(Tail(ss))

RECURSIVE SeqMax(_, _)
\* max() over an iterable that starts with the value m
SeqMax(m, s) ==
    IF s = <<>> THEN m
    ELSE SeqMax(IF Head(s) > m THEN Head(s) ELSE m, Tail(s))


(* ---------------------------- the state ------------------------------- *)

VARIABLES
    created,      \* archive: thread -> creation time
    ncomments,    \* archive: thread -> number of comments
    outputArg,    \* the output_file argument of main
    extra,        \* archive: fields the comment search adds to every comment
    pageSize,     \* the page_size fetch_dq_thread_ids is called with
    fs,           \* file system: path -> File(rows) or NoFile
    runs,         \* how many times the process was started
    partial,      \* passes that failed after appending rows
    pc,           \* where main is
    sleeps,       \* main: the backoff delays left
    done,         \* main: done
    status,       \* the exit status of the process, "running" before it exits
    after,        \* scrape_mfa: the resolved cursor
    term,         \* itertools.chain: index of the running fetch_dq_thread_ids
    pageAfter,    \* fetch_dq_thread_ids: its local after
    page,         \* fetch_dq_thread_ids: threads of the page not yet yielded
    ids,          \* fetch_comment_ids: comment refs of the thread not yet yielded
    batch,        \* chunk: the tuple zip_longest is filling
    data,         \* fetch_comments: comments of the response not yet yielded
    unique,       \* scrape_mfa: the comment_ids deduplicate returned
    attempts,     \* history: calls of scrape_mfa in this run
    waits,        \* history: the delays slept in this run, in order
    storeAtStart, \* history: rows of the store when the pass opened it
    resolved,     \* history: comments of the batches resolved in this pass
    queries,      \* history: the id lists of the batch queries of this pass
    pulled,       \* history: the comment ids pulled into chunk in this pass
    dedupRuns,    \* history: input, output file and count of every deduplicate
    failedAt,     \* history: the query the last failed pass raised at
    pageQueries,  \* history: the thread page queries answered in this pass
    yielded       \* history: the threads fetch_dq_thread_ids yielded in this pass

env == <<created, ncomments, outputArg, extra, pageSize>>
mainVars == <<pc, sleeps, done, status, attempts, waits, runs, partial>>
passVars == <<after, term, pageAfter, page, ids, batch, data>>
histVars == <<storeAtStart, resolved, queries, pulled, failedAt, pageQueries, yielded>>
vars == <<env, fs, mainVars, passVars, unique, histVars, dedupRuns>>

(* --------------------------- the archive API --------------------------- *)

\* the threads of the archive in Spec: one of each search term
Threads == {"s1", "d1"}

Times == {START_TIME + d : d \in 0..MaxOffset}

\* "s.." threads are Simple Questions threads, "d.." threads Daily Questions
TitleOf(t) == IF t \in {"d1", "d2"} THEN SEARCH_TERMS[2] ELSE SEARCH_TERMS[1]

\* the archive's order among threads created in the same second
ThreadRank(t) ==
    CASE t = "s1" -> 1 [] t = "s2" -> 2 [] t = "s3" -> 3 [] t = "d1" -> 4 [] t = "d2" -> 5

Before(t, u) ==
    \/ created[t] < created[u]
    \/ created[t] = created[u] /\ ThreadRank(t) < ThreadRank(u)

RECURSIVE SortAsc(_)
SortAsc(S) ==
    IF S = {} THEN <<>>
    ELSE LET m == CHOOSE t \in S : \A u \in S \ {t} : Before(t, u)
         IN  <<m>> \o SortAsc(S \ {m})

\* /reddit/search/submission: sort asc by created_utc, after (exclusive), size
submission_search(title, after_, size) ==
    LET all == SortAsc({t \in DOMAIN created : TitleOf(t) = title /\ created[t] > after_})
    IN  [i \in 1..Min(size, Len(all)) |->
            [id |-> all[i], created_utc |-> created[all[i]], title |-> TitleOf(all[i])]]

\* {**b, **a}: the left operand wins
Merge_left_wins(a, b) ==
    [k \in DOMAIN a \cup DOMAIN b |-> IF k \in DOMAIN a THEN a[k] ELSE b[k]]

\* {**a, **b}
Merge(a, b) ==
    [k \in DOMAIN a \cup DOMAIN b |-> IF k \in DOMAIN b THEN b[k] ELSE a[k]]

\* /reddit/submission/comment_ids/{thread_id}
comment_id_list(thread_id) == [k \in 1..ncomments[thread_id] |-> <<thread_id, k>>]

\* /reddit/search/comment: the first comment of a thread answers the thread
\* ("t3_" + thread id), the others answer the first comment ("t1_" + id)
comment_search(id_list) ==
    [i \in 1..Len(id_list) |->
        Merge([id |-> id_list[i],
               parent_id |-> IF id_list[i][2] = 1
                             THEN <<"t3_", id_list[i][1]>>
                             ELSE <<"t1_", id_list[i][1], 1>>],
              extra)]

(* ------------------------- the pure functions -------------------------- *)

RECURSIVE Digits(_)
\* str(n) of a non-negative int: its decimal digits
Digits(n) == IF n < 10 THEN <<n>> ELSE Append(Digits(n \div 10), n % 10)

RECURSIVE int(_)
\* int(s) of a string of decimal digits
int(s) == IF s = <<>> THEN 0 ELSE 10 * int(SubSeq(s, 1, Len(s) - 1)) + s[Len(s)]

\* the cell DictWriter writes for a field: str() of an int, "" for None
Cell(field, value) ==
    CASE field = "thread_created_utc" -> Digits(value)
      [] field = "parent_id" -> IF value = None THEN <<>> ELSE value
      [] OTHER -> value

\* DictWriter.writerow with extrasaction="ignore": the COMMENT_FIELDS only
writerow(comment) ==
    [f \in Range(COMMENT_FIELDS) |-> Cell(f, comment[f])]

\* the output file opened "w+" whether or not it exists
initialize_output_file_truncate(files) ==
    [files EXCEPT ![OUTPUT_FILE] = File(<<>>)]

initialize_output_file(files) ==
    IF files[OUTPUT_FILE] = NoFile
    THEN [files EXCEPT ![OUTPUT_FILE] = File(<<>>)]
    ELSE files

\* the cursor without the step back of one second
initial_page_boundary_latest(files) ==
    IF files[OUTPUT_FILE] = NoFile
    THEN START_TIME
    ELSE SeqMax(START_TIME,
                [i \in 1..Len(files[OUTPUT_FILE].rows) |->
                    int(files[OUTPUT_FILE].rows[i]["thread_created_utc"])])

initial_page_boundary(files) ==
    IF files[OUTPUT_FILE] = NoFile
    THEN START_TIME
    ELSE LET reader == files[OUTPUT_FILE].rows
             latest_page ==
                 SeqMax(START_TIME,
                        [i \in 1..Len(reader) |-> int(reader[i]["thread_created_utc"])])
         IN  latest_page - 1

fetch_dq_thread_page(search_term, after_, page_size) ==
    LET response == submission_search(search_term, after_, page_size)
    IN  [i \in 1..Len(response) |->
            [thread_id |-> response[i].id,
             thread_created_utc |-> response[i].created_utc,
             thread_title |-> response[i].title]]

\* what fetch_comment_ids yields for one thread
fetch_comment_ids(thread) ==
    LET data_ == comment_id_list(thread.thread_id)
    IN  [k \in 1..Len(data_) |-> Merge([id |-> data_[k]], thread)]

startswith(s, prefix) == Len(s) >= 1 /\ s[1] = prefix

\* the normalisation without its "t3_" branch
correct_parent_id_keep_t3(comment) ==
    IF startswith(comment.parent_id, "t1_")
    THEN [comment EXCEPT !.parent_id = Tail(@)]
    ELSE comment

correct_parent_id(comment) ==
    IF startswith(comment.parent_id, "t1_")
    THEN [comment EXCEPT !.parent_id = Tail(@)]
    ELSE IF startswith(comment.parent_id, "t3_")
         THEN [comment EXCEPT !.parent_id = None]
         ELSE comment

\* the keys of comment_dict, in insertion order
comment_dict_keys(comments) ==
    LET all == [i \in 1..Len(comments) |-> comments[i].id]
        first(i) == \A j \in 1..(i - 1) : all[j] # all[i]
        RECURSIVE keep(_)
        keep(i) == IF i > Len(all) THEN <<>>
                   ELSE (IF first(i) THEN <<all[i]>> ELSE <<>>) \o keep(i + 1)
    IN  keep(1)

\* comment_dict[id]: the last comment of the batch with that id
comment_dict_get(comments, id) ==
    LET last == CHOOSE i \in 1..Len(comments) :
                    /\ comments[i].id = id
                    /\ \A j \in (i + 1)..Len(comments) : comments[j].id # id
    IN  comments[last]

\* what fetch_comments yields once its query has answered
fetch_comments(comments) ==
    LET data_ == comment_search(comment_dict_keys(comments))
    IN  [i \in 1..Len(data_) |->
            Merge(correct_parent_id(data_[i]), comment_dict_get(comments, data_[i].id))]

RECURSIVE dedup_loop(_, _, _)
dedup_loop(reader, out, comment_ids) ==
    IF reader = <<>> THEN [out |-> out, comment_ids |-> comment_ids]
    ELSE LET row == Head(reader)
         IN  IF row["id"] \notin comment_ids
             THEN dedup_loop(Tail(reader), Append(out, row), comment_ids \cup {row["id"]})
             ELSE dedup_loop(Tail(reader), out, comment_ids)

RECURSIVE dedup_loop_no_add(_, _, _)
dedup_loop_no_add(reader, out, comment_ids) ==
    IF reader = <<>> THEN [out |-> out, comment_ids |-> comment_ids]
    ELSE LET row == Head(reader)
         IN  IF row["id"] \notin comment_ids
             THEN dedup_loop_no_add(Tail(reader), Append(out, row),
                                    IF out = <<>> THEN {row["id"]} ELSE comment_ids)
             ELSE dedup_loop_no_add(Tail(reader), out, comment_ids)

\* deduplicate remembering only the id of the first row
deduplicate_first_id(in_rows) == dedup_loop_no_add(in_rows, <<>>, {})

\* deduplicate(in_handle, out_handle): the rows written and the set returned
deduplicate(in_rows) == dedup_loop(in_rows, <<>>, {})

\* zip_longest's tuple once the shared iterator is exhausted: fill the rest
zip_longest_fill(tuple, size) ==
    [i \in 1..size |-> IF i <= Len(tuple) THEN tuple[i] ELSE Sentinel]

\* the filter losing the first item of every tuple: xs[1:]
drop_sentinel_tail(xs) ==
    LET RECURSIVE keep(_)
        keep(i) == IF i > Len(xs) THEN <<>>
                   ELSE (IF xs[i] = Sentinel THEN <<>> ELSE <<xs[i]>>) \o keep(i + 1)
    IN  keep(2)

\* [x for x in xs if x is not sentinel_value]
drop_sentinel(xs) ==
    LET RECURSIVE keep(_)
        keep(i) == IF i > Len(xs) THEN <<>>
                   ELSE (IF xs[i] = Sentinel THEN <<>> ELSE <<xs[i]>>) \o keep(i + 1)
    IN  keep(1)


(* ------------------------------ the steps ------------------------------ *)

Init ==
    /\ created \in [Threads -> Times]
    /\ ncomments \in [Threads -> 0..MaxComments]
    /\ outputArg \in {OUTPUT_FILE, OTHER_FILE}
    /\ extra = <<>>
    /\ pageSize = PAGE_SIZE
    /\ fs = [p \in Paths |-> NoFile]
    /\ runs = 0
    /\ partial = 0
    /\ pc = "idle"
    /\ sleeps = <<>>
    /\ done = FALSE
    /\ status = "running"
    /\ after = START_TIME
    /\ term = 1
    /\ pageAfter = START_TIME
    /\ page = <<>>
    /\ ids = <<>>
    /\ batch = <<>>
    /\ data = <<>>
    /\ unique = {}
    /\ attempts = 0
    /\ waits = <<>>
    /\ storeAtStart = <<>>
    /\ resolved = <<>>
    /\ queries = <<>>
    /\ pulled = <<>>
    /\ dedupRuns = <<>>
    /\ failedAt = "none"
    /\ pageQueries = <<>>
    /\ yielded = <<>>

\* the process is started: main up to its first try
main ==
    /\ pc \in {"idle", "exit"}
    /\ runs < MaxRuns
    /\ runs' = runs + 1
    /\ pc' = "try"
    /\ done' = FALSE
    /\ sleeps' = SLEEPS
    /\ status' = "running"
    /\ attempts' = 0
    /\ waits' = <<>>
    /\ UNCHANGED <<env, fs, partial, passVars, unique, histVars, dedupRuns>>

\* scrape_mfa opening the output file "w+" instead of "a+"
scrape_mfa_truncate ==
    /\ pc = "try"
    /\ LET fs1 == [fs EXCEPT ![COLUMNS_FILE] = File(<<COMMENT_FIELDS>>)]
           fs2 == initialize_output_file(fs1)
           fs3 == [fs2 EXCEPT ![outputArg] = File(<<>>)]
       IN  /\ after' = initial_page_boundary(fs2)
           /\ pageAfter' = initial_page_boundary(fs2)
           /\ fs' = fs3
           /\ storeAtStart' = fs3[outputArg].rows
    /\ term' = 1
    /\ page' = <<>>
    /\ ids' = <<>>
    /\ batch' = <<>>
    /\ data' = <<>>
    /\ resolved' = <<>>
    /\ queries' = <<>>
    /\ pulled' = <<>>
    /\ failedAt' = "none"
    /\ pageQueries' = <<>>
    /\ yielded' = <<>>
    /\ attempts' = attempts + 1
    /\ pc' = "pull"
    /\ UNCHANGED <<env, sleeps, done, status, waits, runs, partial, unique, dedupRuns>>

\* scrape_mfa up to the first pull of csvify_comments: the columns file, the
\* output file, the cursor, the generators, open(output_file, "a+")
scrape_mfa ==
    /\ pc = "try"
    /\ LET fs1 == [fs EXCEPT ![COLUMNS_FILE] = File(<<COMMENT_FIELDS>>)]
           fs2 == initialize_output_file(fs1)
           fs3 == [fs2 EXCEPT ![outputArg] = File(@.rows)]
       IN  /\ after' = initial_page_boundary(fs2)
           /\ pageAfter' = initial_page_boundary(fs2)
           /\ fs' = fs3
           /\ storeAtStart' = fs3[outputArg].rows
    /\ term' = 1
    /\ page' = <<>>
    /\ ids' = <<>>
    /\ batch' = <<>>
    /\ data' = <<>>
    /\ resolved' = <<>>
    /\ queries' = <<>>
    /\ pulled' = <<>>
    /\ failedAt' = "none"
    /\ pageQueries' = <<>>
    /\ yielded' = <<>>
    /\ attempts' = attempts + 1
    /\ pc' = "pull"
    /\ UNCHANGED <<env, sleeps, done, status, waits, runs, partial, unique, dedupRuns>>

\* whether this pass has appended rows
Appended == Len(fs[outputArg].rows) > Len(storeAtStart)

\* a query may raise, within the bound on the passes that fail after appending
MayRaise == ~Appended \/ partial < MaxPartialPasses

\* main's except clause taking the delays from the front: sleeps.pop(0)
raise_pop_front(query) ==
    /\ MayRaise
    /\ failedAt' = query
    /\ partial' = IF Appended THEN partial + 1 ELSE partial
    /\ IF Len(sleeps) = 0
       THEN /\ pc' = "exit"
            /\ status' = "1"
            /\ UNCHANGED <<sleeps, waits>>
       ELSE /\ pc' = "sleep"
            /\ sleeps' = Tail(sleeps)
            /\ waits' = Append(waits, Head(sleeps))
            /\ UNCHANGED status
    /\ UNCHANGED <<env, fs, done, attempts, runs, passVars, unique,
                   storeAtStart, resolved, queries, pulled, pageQueries, yielded, dedupRuns>>

\* main's except clause giving up one delay early: len(sleeps) == 1
raise_one_short(query) ==
    /\ MayRaise
    /\ failedAt' = query
    /\ partial' = IF Appended THEN partial + 1 ELSE partial
    /\ IF Len(sleeps) <= 1
       THEN /\ pc' = "exit"
            /\ status' = "1"
            /\ UNCHANGED <<sleeps, waits>>
       ELSE /\ pc' = "sleep"
            /\ sleeps' = SubSeq(sleeps, 1, Len(sleeps) - 1)
            /\ waits' = Append(waits, sleeps[Len(sleeps)])
            /\ UNCHANGED status
    /\ UNCHANGED <<env, fs, done, attempts, runs, passVars, unique,
                   storeAtStart, resolved, queries, pulled, pageQueries, yielded, dedupRuns>>

\* fetch_json raises: the exception leaves scrape_mfa (closing the output
\* file) and reaches main's except clause
raise(query) ==
    /\ MayRaise
    /\ failedAt' = query
    /\ partial' = IF Appended THEN partial + 1 ELSE partial
    /\ IF Len(sleeps) = 0
       THEN /\ pc' = "exit"
            /\ status' = "1"
            /\ UNCHANGED <<sleeps, waits>>
       ELSE /\ pc' = "sleep"
            /\ sleeps' = SubSeq(sleeps, 1, Len(sleeps) - 1)
            /\ waits' = Append(waits, sleeps[Len(sleeps)])
            /\ UNCHANGED status
    /\ UNCHANGED <<env, fs, done, attempts, runs, passVars, unique,
                   storeAtStart, resolved, queries, pulled, pageQueries, yielded, dedupRuns>>

\* time.sleep(sleep) returns and the loop tries again
sleep ==
    /\ pc = "sleep"
    /\ pc' = "try"
    /\ UNCHANGED <<env, fs, sleeps, done, status, attempts, waits, runs, partial,
                   passVars, unique, histVars, dedupRuns>>

\* chunk pulling ahead while comments of the last batch are still unwritten
WantsId_ahead == pc = "pull" /\ Len(batch) < ChunkSize

\* chunk asks fetch_comment_ids for the next id
WantsId == pc = "pull" /\ data = <<>> /\ Len(batch) < ChunkSize

\* the chain of the two fetch_dq_thread_ids is exhausted
Exhausted == term > Len(SEARCH_TERMS)

\* the paginator asking its term once more after the first empty page of a pass
thread_page_query_again ==
    /\ WantsId /\ ids = <<>> /\ page = <<>> /\ ~Exhausted
    /\ \/ raise("thread page")
       \/ LET got == fetch_dq_thread_page(SEARCH_TERMS[term], pageAfter, pageSize)
          IN  /\ IF Len(got) = 0
                 THEN /\ term' = IF Len(pageQueries) = 0 THEN term ELSE term + 1
                      /\ pageAfter' = after
                      /\ page' = <<>>
                 ELSE /\ page' = got
                      /\ UNCHANGED <<term, pageAfter>>
              /\ pageQueries' = Append(pageQueries,
                                       [search_term |-> SEARCH_TERMS[term],
                                        after |-> pageAfter, size |-> Len(got)])
              /\ UNCHANGED <<env, fs, mainVars, after, ids, batch, data, unique,
                             storeAtStart, resolved, queries, pulled, failedAt,
                             yielded, dedupRuns>>

\* fetch_dq_thread_ids asks for its next page
thread_page_query ==
    /\ WantsId /\ ids = <<>> /\ page = <<>> /\ ~Exhausted
    /\ \/ raise("thread page")
       \/ LET got == fetch_dq_thread_page(SEARCH_TERMS[term], pageAfter, pageSize)
          IN  /\ IF Len(got) = 0
                 THEN /\ term' = term + 1
                      /\ pageAfter' = after
                      /\ page' = <<>>
                 ELSE /\ page' = got
                      /\ UNCHANGED <<term, pageAfter>>
              /\ pageQueries' = Append(pageQueries,
                                       [search_term |-> SEARCH_TERMS[term],
                                        after |-> pageAfter, size |-> Len(got)])
              /\ UNCHANGED <<env, fs, mainVars, after, ids, batch, data, unique,
                             storeAtStart, resolved, queries, pulled, failedAt,
                             yielded, dedupRuns>>

\* fetch_dq_thread_ids yields the next thread of the page and fetch_comment_ids
\* asks for its comment ids; the paginator's after moves when it is resumed
comment_ids_query ==
    /\ WantsId /\ ids = <<>> /\ page # <<>>
    /\ \/ raise("comment ids")
       \/ /\ ids' = fetch_comment_ids(Head(page))
          /\ page' = Tail(page)
          /\ pageAfter' = Head(page).thread_created_utc
          /\ yielded' = Append(yielded, Head(page))
          /\ UNCHANGED <<env, fs, mainVars, after, term, batch, data, unique,
                         storeAtStart, resolved, queries, pulled, failedAt,
                         pageQueries, dedupRuns>>

\* zip_longest takes the next id of fetch_comment_ids into its tuple
pull_id ==
    /\ WantsId /\ ids # <<>>
    /\ batch' = Append(batch, Head(ids))
    /\ ids' = Tail(ids)
    /\ pulled' = Append(pulled, Head(ids).id)
    /\ UNCHANGED <<env, fs, mainVars, after, term, pageAfter, page, data, unique,
                   storeAtStart, resolved, queries, failedAt, pageQueries, yielded, dedupRuns>>

\* the tuple is complete (full, or filled up once the ids are exhausted) and
\* fetch_comments asks for the comments of the batch
comments_query ==
    /\ pc = "pull" /\ data = <<>>
    /\ \/ Len(batch) = ChunkSize
       \/ Exhausted /\ ids = <<>> /\ batch # <<>>
    /\ \/ raise("comment batch")
       \/ LET comment_page == drop_sentinel(zip_longest_fill(batch, ChunkSize))
              comments == fetch_comments(comment_page)
          IN  /\ data' = comments
              /\ batch' = <<>>
              /\ queries' = Append(queries, comment_dict_keys(comment_page))
              /\ resolved' = resolved \o [i \in 1..Len(comments) |-> writerow(comments[i])]
              /\ UNCHANGED <<env, fs, mainVars, after, term, pageAfter, page, ids,
                             unique, storeAtStart, pulled, failedAt,
                             pageQueries, yielded, dedupRuns>>

\* csvify_comments writes the next comment fetch_comments yields
csvify_comments ==
    /\ pc = "pull" /\ data # <<>>
    /\ fs' = [fs EXCEPT ![outputArg] = File(Append(@.rows, writerow(Head(data))))]
    /\ data' = Tail(data)
    /\ UNCHANGED <<env, mainVars, after, term, pageAfter, page, ids, batch, unique,
                   histVars, dedupRuns>>

\* the deduplicated file opened "a+" instead of "w+"
run_deduplicate_append(infile, outfile) ==
    LET result == deduplicate(fs[infile].rows)
        written == [fs EXCEPT ![outfile] = File(@.rows \o result.out)]
    IN  /\ fs' = written
        /\ unique' = result.comment_ids
        /\ dedupRuns' = Append(dedupRuns,
                               [infile |-> infile, input |-> fs[infile].rows,
                                output |-> written[outfile].rows,
                                count |-> Cardinality(result.comment_ids)])

\* with open(infile, "r"), open(outfile, "w+"): deduplicate(infile, outfile)
run_deduplicate(infile, outfile) ==
    LET result == deduplicate(fs[infile].rows)
        written == [fs EXCEPT ![outfile] = File(result.out)]
    IN  /\ fs' = written
        /\ unique' = result.comment_ids
        /\ dedupRuns' = Append(dedupRuns,
                               [infile |-> infile, input |-> fs[infile].rows,
                                output |-> written[outfile].rows,
                                count |-> Cardinality(result.comment_ids)])

\* the comments are exhausted: scrape_mfa deduplicates the output file into
\* the deduplicated file and returns; main exits with status 0
deduplicate_step ==
    /\ pc = "pull" /\ data = <<>> /\ batch = <<>> /\ ids = <<>> /\ Exhausted
    /\ run_deduplicate(outputArg, DEDUPLICATED_FILE)
    /\ done' = TRUE
    /\ pc' = "exit"
    /\ status' = "0"
    /\ UNCHANGED <<env, sleeps, attempts, waits, runs, partial, passVars, histVars>>

Next ==
    \/ main
    \/ scrape_mfa
    \/ thread_page_query
    \/ comment_ids_query
    \/ pull_id
    \/ comments_query
    \/ csvify_comments
    \/ deduplicate_step
    \/ sleep

Spec == Init /\ [][Next]_vars

\* the process, once started, keeps running: every step but the start of a
\* new process is taken when it can be
Step ==
    \/ scrape_mfa
    \/ thread_page_query
    \/ comment_ids_query
    \/ pull_id
    \/ comments_query
    \/ csvify_comments
    \/ deduplicate_step
    \/ sleep

\* one archive: a thread of each search term, one comment each
InitFair ==
    /\ Init
    /\ created = [t \in Threads |-> START_TIME]
    /\ ncomments = [t \in Threads |-> 1]
    /\ outputArg = OUTPUT_FILE

FairSpec == InitFair /\ [][Next]_vars /\ WF_vars(Step)


(* ---------------------- deduplicate on any store ---------------------- *)

\* rows of three ids, two different rows of each
DedupRows ==
    {[id |-> id, thread_id |-> id[1], thread_created_utc |-> Digits(START_TIME),
      parent_id |-> parent] :
        id \in {<<"s1", 1>>, <<"s1", 2>>, <<"d1", 1>>}, parent \in {<<>>, <<"s1", 3>>}}

InitDedup ==
    /\ created = [t \in Threads |-> START_TIME]
    /\ ncomments = [t \in Threads |-> MaxComments]
    /\ outputArg = OUTPUT_FILE
    /\ extra = <<>>
    /\ pageSize = PAGE_SIZE
    /\ \E n \in 0..MaxRows : \E rows \in [1..n -> DedupRows] :
           fs = [p \in Paths |-> IF p = OUTPUT_FILE THEN File(rows) ELSE NoFile]
    /\ runs = 0
    /\ partial = 0
    /\ pc = "deduplicate"
    /\ sleeps = <<>>
    /\ done = FALSE
    /\ status = "running"
    /\ after = START_TIME
    /\ term = 1
    /\ pageAfter = START_TIME
    /\ page = <<>>
    /\ ids = <<>>
    /\ batch = <<>>
    /\ data = <<>>
    /\ unique = {}
    /\ attempts = 0
    /\ waits = <<>>
    /\ storeAtStart = <<>>
    /\ resolved = <<>>
    /\ queries = <<>>
    /\ pulled = <<>>
    /\ dedupRuns = <<>>
    /\ failedAt = "none"
    /\ pageQueries = <<>>
    /\ yielded = <<>>

\* deduplicate from the store into the deduplicated file, at most twice
deduplicate_store ==
    /\ pc = "deduplicate"
    /\ Len(dedupRuns) < 2
    /\ run_deduplicate(OUTPUT_FILE, DEDUPLICATED_FILE)
    /\ UNCHANGED <<env, mainVars, passVars, histVars>>

\* deduplicate from the deduplicated file into another file
deduplicate_output ==
    /\ pc = "deduplicate"
    /\ fs[DEDUPLICATED_FILE].exists /\ ~fs[OTHER_FILE].exists
    /\ run_deduplicate(DEDUPLICATED_FILE, OTHER_FILE)
    /\ UNCHANGED <<env, mainVars, passVars, histVars>>

NextDedup == deduplicate_store \/ deduplicate_output

SpecDedup == InitDedup /\ [][NextDedup]_vars

(* --------------------- the paginator, on its own ----------------------- *)

\* the threads of the archive the paginator is run against, all of one term
PageThreads == {"s1", "s2", "s3"}

\* fetch_dq_thread_ids(search_term, after, page_size) about to be consumed:
\* any creation times (ties included), any page size and cursor in the bounds
InitPaginate ==
    /\ created \in [PageThreads -> Times]
    /\ ncomments = [t \in PageThreads |-> 0]
    /\ outputArg = OUTPUT_FILE
    /\ extra = <<>>
    /\ pageSize \in 1..MaxPageSize
    /\ fs = [p \in Paths |-> NoFile]
    /\ runs = 0
    /\ partial = 0
    /\ pc = "paginate"
    /\ sleeps = <<>>
    /\ done = FALSE
    /\ status = "running"
    /\ after \in {START_TIME - 1 + d : d \in 0..MaxOffset}
    /\ term = 1
    /\ pageAfter = after
    /\ page = <<>>
    /\ ids = <<>>
    /\ batch = <<>>
    /\ data = <<>>
    /\ unique = {}
    /\ attempts = 0
    /\ waits = <<>>
    /\ storeAtStart = <<>>
    /\ resolved = <<>>
    /\ queries = <<>>
    /\ pulled = <<>>
    /\ dedupRuns = <<>>
    /\ failedAt = "none"
    /\ pageQueries = <<>>
    /\ yielded = <<>>

\* the while loop asks for the next page; an empty page ends the generator
paginate_page ==
    /\ pc = "paginate" /\ page = <<>>
    /\ LET got == fetch_dq_thread_page(SEARCH_TERMS[term], pageAfter, pageSize)
       IN  /\ page' = got
           /\ pc' = IF Len(got) = 0 THEN "paginated" ELSE "paginate"
           /\ pageQueries' = Append(pageQueries,
                                    [search_term |-> SEARCH_TERMS[term],
                                     after |-> pageAfter, size |-> Len(got)])
    /\ UNCHANGED <<env, fs, sleeps, done, status, attempts, waits, runs, partial,
                   after, term, pageAfter, ids, batch, data, unique,
                   storeAtStart, resolved, queries, pulled, failedAt,
                   yielded, dedupRuns>>

\* the for loop yields the next thread of the page and moves after to it
paginate_yield ==
    /\ pc = "paginate" /\ page # <<>>
    /\ yielded' = Append(yielded, Head(page))
    /\ pageAfter' = Head(page).thread_created_utc
    /\ page' = Tail(page)
    /\ UNCHANGED <<env, fs, mainVars, after, term, ids, batch, data, unique,
                   storeAtStart, resolved, queries, pulled, failedAt,
                   pageQueries, dedupRuns>>

NextPaginate == paginate_page \/ paginate_yield

SpecPaginate == InitPaginate /\ [][NextPaginate]_vars

(* ----------------------- the joiner, on its own ------------------------ *)

\* fields the archive may return with a comment besides id and parent_id:
\* none, one no thread descriptor has, or one a thread descriptor has too
ExtraFields ==
    {<<>>, [score |-> 1], [thread_id |-> "zz"], [thread_title |-> "zz"],
     [thread_created_utc |-> 0]}

\* the comment references fetch_comment_ids yields for the archive's threads
CommentRefs ==
    UNION {Range(fetch_comment_ids([thread_id |-> t,
                                    thread_created_utc |-> created[t],
                                    thread_title |-> TitleOf(t)])) :
               t \in DOMAIN created}

\* fetch_comments(comments) about to be called on one batch of references
InitJoin ==
    /\ created \in [Threads -> Times]
    /\ ncomments = [t \in Threads |-> MaxComments]
    /\ outputArg = OUTPUT_FILE
    /\ extra \in ExtraFields
    /\ pageSize = PAGE_SIZE
    /\ fs = [p \in Paths |-> NoFile]
    /\ runs = 0
    /\ partial = 0
    /\ pc = "join"
    /\ sleeps = <<>>
    /\ done = FALSE
    /\ status = "running"
    /\ after = START_TIME - 1
    /\ term = 1
    /\ pageAfter = START_TIME - 1
    /\ page = <<>>
    /\ ids = <<>>
    /\ \E n \in 1..ChunkSize : batch \in [1..n -> CommentRefs]
    /\ data = <<>>
    /\ unique = {}
    /\ attempts = 0
    /\ waits = <<>>
    /\ storeAtStart = <<>>
    /\ resolved = <<>>
    /\ queries = <<>>
    /\ pulled = <<>>
    /\ dedupRuns = <<>>
    /\ failedAt = "none"
    /\ pageQueries = <<>>
    /\ yielded = <<>>

\* fetch_comments resolves the batch and yields its merged comments
join_batch ==
    /\ pc = "join"
    /\ data' = fetch_comments(batch)
    /\ queries' = Append(queries, comment_dict_keys(batch))
    /\ pc' = "joined"
    /\ UNCHANGED <<env, fs, sleeps, done, status, attempts, waits, runs, partial,
                   after, term, pageAfter, page, ids, batch, unique,
                   storeAtStart, resolved, pulled, failedAt, pageQueries,
                   yielded, dedupRuns>>

NextJoin == join_batch

SpecJoin == InitJoin /\ [][NextJoin]_vars

(* ----------------- the checkpoint resolver, on its own ----------------- *)

\* the thread_created_utc cells a row of the output file may hold for which
\* int() raises ValueError: the empty string and strings with a character
\* that is no digit (written 10 here, the digits being 0..9)
MalformedCells == {<<>>, <<10>>, <<1, 10>>}

\* the rows the output file may hold: rows as the program writes them, rows
\* with a malformed thread_created_utc, and a row too short to have the field
ResolveRows ==
    {[thread_id |-> "s1", thread_created_utc |-> Digits(t)] : t \in Times}
    \cup {[thread_id |-> "s1", thread_created_utc |-> c] : c \in MalformedCells}
    \cup {[thread_id |-> "s1"]}

\* whether int(row["thread_created_utc"]) raises: the DictReader gives None
\* for a field the row is too short for (TypeError), and int() of a string
\* that is no decimal number raises ValueError
int_raises(row) ==
    IF "thread_created_utc" \notin DOMAIN row
    THEN TRUE
    ELSE LET s == row["thread_created_utc"]
         IN  s = <<>> \/ \E i \in 1..Len(s) : s[i] \notin 0..9

\* whether initial_page_boundary raises: only FileNotFoundError is caught
initial_page_boundary_raises(files) ==
    /\ files[OUTPUT_FILE].exists
    /\ \E i \in 1..Len(files[OUTPUT_FILE].rows) : int_raises(files[OUTPUT_FILE].rows[i])

\* initial_page_boundary() about to be called on some output file
InitResolve ==
    /\ created = [t \in Threads |-> START_TIME]
    /\ ncomments = [t \in Threads |-> 0]
    /\ outputArg = OUTPUT_FILE
    /\ extra = <<>>
    /\ pageSize = PAGE_SIZE
    /\ \/ fs = [p \in Paths |-> NoFile]
       \/ \E n \in 0..MaxRows : \E rows \in [1..n -> ResolveRows] :
              fs = [p \in Paths |-> IF p = OUTPUT_FILE THEN File(rows) ELSE NoFile]
    /\ runs = 0
    /\ partial = 0
    /\ pc = "resolve"
    /\ sleeps = <<>>
    /\ done = FALSE
    /\ status = "running"
    /\ after = 0
    /\ term = 1
    /\ pageAfter = 0
    /\ page = <<>>
    /\ ids = <<>>
    /\ batch = <<>>
    /\ data = <<>>
    /\ unique = {}
    /\ attempts = 0
    /\ waits = <<>>
    /\ storeAtStart = <<>>
    /\ resolved = <<>>
    /\ queries = <<>>
    /\ pulled = <<>>
    /\ dedupRuns = <<>>
    /\ failedAt = "none"
    /\ pageQueries = <<>>
    /\ yielded = <<>>

\* initial_page_boundary returns the cursor
resolve_return ==
    /\ pc = "resolve"
    /\ ~initial_page_boundary_raises(fs)
    /\ after' = initial_page_boundary(fs)
    /\ pc' = "resolved"
    /\ UNCHANGED <<env, fs, sleeps, done, status, attempts, waits, runs, partial,
                   term, pageAfter, page, ids, batch, data, unique,
                   histVars, dedupRuns>>

\* int() raises inside the generator max() consumes: the exception is not a
\* FileNotFoundError and leaves initial_page_boundary
resolve_raise ==
    /\ pc = "resolve"
    /\ initial_page_boundary_raises(fs)
    /\ pc' = "raised"
    /\ failedAt' = "initial_page_boundary"
    /\ UNCHANGED <<env, fs, sleeps, done, status, attempts, waits, runs, partial,
                   passVars, unique, storeAtStart, resolved, queries, pulled,
                   pageQueries, yielded, dedupRuns>>

NextResolve == resolve_return \/ resolve_raise

SpecResolve == InitResolve /\ [][NextResolve]_vars

(* ------------------------------ the claims ----------------------------- *)

Store == fs[outputArg].rows

Deduplicated == fs[DEDUPLICATED_FILE].rows

Succeeded == pc = "exit" /\ status = "0"

\* every comment of the archive: all its threads are created after the cursor
\* of an empty store, so both search-term streams return all of them
AllCommentIds == {<<t, k>> : t \in DOMAIN created, k \in 1..MaxComments} \cap
                 UNION {Range(comment_id_list(t)) : t \in DOMAIN created}

Occurrences(rows, id) == Cardinality({i \in 1..Len(rows) : rows[i]["id"] = id})

\* the largest thread_created_utc among rows (rows is not empty)
MaxCreated(rows) ==
    CHOOSE T \in {int(rows[i]["thread_created_utc"]) : i \in 1..Len(rows)} :
        \A i \in 1..Len(rows) : int(rows[i]["thread_created_utc"]) <= T

\* out is rows with, of every id, only its first row, in the order of rows
IsFirstOccurrences(rows, out) ==
    LET firstOf(id) == CHOOSE i \in 1..Len(rows) :
                           /\ rows[i]["id"] = id
                           /\ \A j \in 1..(i - 1) : rows[j]["id"] # id
    IN  /\ {out[i]["id"] : i \in 1..Len(out)} = {rows[i]["id"] : i \in 1..Len(rows)}
        /\ \A i \in 1..Len(out) : out[i] = rows[firstOf(out[i]["id"])]
        /\ \A i, j \in 1..Len(out) :
               i < j => firstOf(out[i]["id"]) < firstOf(out[j]["id"])

\* C1: once a pass that follows a failed pass of the run has completed, the
\* deduplicated output holds every comment record of the threads the two
\* search-term streams return, each exactly once
C1_AllRecordsAfterRetry ==
    (Succeeded /\ attempts > 1) =>
        \A id \in AllCommentIds : Occurrences(Deduplicated, id) = 1

\* C2: on a store with records, the cursor initial_page_boundary returns is
\* the largest thread_created_utc of the store minus one: in every file system
\* the program reaches, and as the cursor of every pass that has started
C2_CursorOfStore ==
    /\ fs[OUTPUT_FILE].rows # <<>> =>
           initial_page_boundary(fs) = MaxCreated(fs[OUTPUT_FILE].rows) - 1
    /\ (pc = "pull" /\ outputArg = OUTPUT_FILE /\ storeAtStart # <<>>) =>
           after = MaxCreated(storeAtStart) - 1

\* a retry has resolved its cursor from a store that holds two threads
C2_Witness ==
    /\ pc = "pull" /\ outputArg = OUTPUT_FILE /\ attempts > 1
    /\ \E i, j \in 1..Len(storeAtStart) :
           storeAtStart[i]["thread_created_utc"] # storeAtStart[j]["thread_created_utc"]
    /\ after = MaxCreated(storeAtStart) - 1

\* C3: a pass that starts on a store without records uses the cursor START_TIME
C3_CursorOfEmptyStore ==
    (pc = "pull" /\ storeAtStart = <<>>) => after = START_TIME

\* C4: the delays slept are 0, 10, 10, 20, 30, 60, 80 in this order, one after
\* each failed attempt that is followed by another; seven failures and a
\* success make 8 attempts and these 7 waits with status 0; after 8 failures
\* there is no 9th attempt and the status is 1
C4_BackoffSchedule ==
    LET schedule == <<0, 10, 10, 20, 30, 60, 80>>
    IN  /\ attempts <= 8
        /\ Len(waits) <= 7
        /\ waits = SubSeq(schedule, 1, Len(waits))
        /\ pc = "pull" => Len(waits) = attempts - 1
        /\ pc \in {"sleep", "try"} => Len(waits) = attempts
        /\ (Succeeded /\ attempts = 8) => waits = schedule
        /\ (pc = "exit" /\ status = "1") => (attempts = 8 /\ waits = schedule)

\* seven failed attempts, the seven waits, and the eighth attempt succeeded
C4_Witness ==
    Succeeded /\ attempts = 8 /\ waits = <<0, 10, 10, 20, 30, 60, 80>>

C5_Safe ==
    /\ attempts <= 8
    /\ pc = "exit" <=> status \in {"0", "1"}
    /\ status = "0" <=> done
    /\ done => pc = "exit"
    /\ status = "1" => (attempts = 8 /\ Len(waits) = 7 /\ failedAt # "none")
    /\ pc \in {"sleep", "try"} => attempts < 8

\* C5: main ends after at most 8 attempts: with status 0 exactly when an
\* attempt completed (and none is made after it), with status 1 exactly when
\* all 8 attempts failed; and a started process reaches its exit
C5_Termination ==
    /\ []C5_Safe
    /\ [](pc \in {"try", "pull", "sleep"} => <>(pc = "exit"))

\* all 8 attempts failed and main has exited with status 1
C5_Witness == pc = "exit" /\ status = "1" /\ attempts = 8 /\ ~done

\* C6: after a pass has failed at a query, the store is the store the pass
\* started from followed by the comments of the batches resolved before the
\* failure, in the order produced, and holds no comment of the batch in flight
C6_FlushedOnFailure ==
    failedAt # "none" =>
        /\ Store = storeAtStart \o resolved
        /\ \A i \in 1..Len(batch) : \A j \in (Len(storeAtStart) + 1)..Len(Store) :
               Store[j]["id"] # batch[i].id

\* a pass has failed at a batch query with batches resolved before it
C6_Witness ==
    /\ pc = "sleep" /\ failedAt = "comment batch"
    /\ resolved # <<>> /\ batch # <<>>
    /\ Store = storeAtStart \o resolved

\* C7: when a pass has completed, the deduplicated output is the store with,
\* of every id, only its first row: the whole store, and nothing else
C7_DeduplicatedIsStore ==
    Succeeded => IsFirstOccurrences(Store, Deduplicated)

\* a second run has completed on a store that holds rows of a failed pass and
\* of the first run, and has written the deduplicated output again
C7_Witness ==
    /\ Succeeded /\ runs = 2 /\ partial > 0
    /\ Len(dedupRuns) = 2 /\ dedupRuns[1].output # <<>>
    /\ Len(Store) > Len(Deduplicated)
    /\ IsFirstOccurrences(Store, Deduplicated)

IdsOf(rows) == [i \in 1..Len(rows) |-> rows[i]["id"]]

\* C8: deduplicate writes one row per id of its input, the first row with
\* that id, in the order of the first occurrences, and returns as many ids as
\* the input has distinct ones
C8_FirstOccurrences ==
    \A r \in 1..Len(dedupRuns) :
        /\ IsFirstOccurrences(dedupRuns[r].input, dedupRuns[r].output)
        /\ \A i, j \in 1..Len(dedupRuns[r].output) :
               i # j => dedupRuns[r].output[i]["id"] # dedupRuns[r].output[j]["id"]
        /\ dedupRuns[r].count = Cardinality(Range(IdsOf(dedupRuns[r].input)))

\* the ids [a, b, a, c, b], of which the second a and b are different rows,
\* gave the first rows of [a, b, c] and the count 3
C8_Witness ==
    /\ Len(dedupRuns) = 1
    /\ IdsOf(dedupRuns[1].input) =
           << <<"s1", 1>>, <<"s1", 2>>, <<"s1", 1>>, <<"d1", 1>>, <<"s1", 2>> >>
    /\ dedupRuns[1].input[3] # dedupRuns[1].input[1]
    /\ dedupRuns[1].input[5] # dedupRuns[1].input[2]
    /\ dedupRuns[1].output = SubSeq(dedupRuns[1].input, 1, 2) \o <<dedupRuns[1].input[4]>>
    /\ dedupRuns[1].count = 3

\* C9: two runs of deduplicate on the same store leave the same deduplicated
\* file and return the same count, and deduplicate on its own output writes
\* that output again
C9_Idempotent ==
    /\ \A q, r \in 1..Len(dedupRuns) :
           (dedupRuns[q].infile = dedupRuns[r].infile /\ dedupRuns[q].input = dedupRuns[r].input)
               => /\ dedupRuns[q].output = dedupRuns[r].output
                  /\ dedupRuns[q].count = dedupRuns[r].count
    /\ \A r \in 1..Len(dedupRuns) :
           dedupRuns[r].infile = DEDUPLICATED_FILE =>
               /\ dedupRuns[r].output = dedupRuns[r].input
               /\ dedupRuns[r].count = Len(dedupRuns[r].input)

\* deduplicate has run twice on a store with repeated ids and then once on
\* the deduplicated file
C9_Witness ==
    /\ Len(dedupRuns) = 3
    /\ dedupRuns[1].infile = OUTPUT_FILE /\ dedupRuns[2].infile = OUTPUT_FILE
    /\ dedupRuns[3].infile = DEDUPLICATED_FILE
    /\ Len(dedupRuns[1].input) > Len(dedupRuns[1].output)
    /\ dedupRuns[2].output = dedupRuns[1].output
    /\ fs[OTHER_FILE].rows = Deduplicated

\* C10: the batch queries of a pass carry the ids chunk pulled, in the order
\* pulled, none left out and none twice: each query at most ChunkSize ids, every
\* query but the last exactly ChunkSize, and once the pass has completed there
\* were ceil(N / ChunkSize) queries for the N ids (none for N = 0)
C10_BatchBoundaries ==
    LET N == Len(pulled)
        inTuple == [i \in 1..Len(batch) |-> batch[i].id]
    IN  /\ pc = "pull" => Flatten(queries) \o inTuple = pulled
        /\ \A q \in 1..Len(queries) :
               /\ Len(queries[q]) \in 1..ChunkSize
               /\ q < Len(queries) => Len(queries[q]) = ChunkSize
        /\ Succeeded =>
               /\ Flatten(queries) = pulled
               /\ Len(queries) = (N + ChunkSize - 1) \div ChunkSize
               /\ N = 0 => queries = <<>>

\* a pass has completed with a last batch smaller than the others
C10_Witness ==
    /\ Succeeded
    /\ Len(queries) = 2
    /\ Len(queries[1]) = ChunkSize /\ Len(queries[2]) < ChunkSize
    /\ Flatten(queries) = pulled


\* the parent_id the archive returns for a comment id before any normalisation
RawParentId(id) == comment_search(<<id>>)[1].parent_id

\* C11: every comment emitted by the joiner has, for a raw parent_id prefixed
\* "t1_", the non-null reference with the prefix removed and, for a raw
\* parent_id prefixed "t3_", null; no row of the store has a parent_id that
\* refers to a thread (its cell is empty or the id of a comment)
C11_ParentIdNormalized ==
    /\ \A i \in 1..Len(data) :
           LET raw == RawParentId(data[i].id)
           IN  /\ startswith(raw, "t1_") =>
                      data[i].parent_id # None /\ data[i].parent_id = Tail(raw)
               /\ startswith(raw, "t3_") => data[i].parent_id = None
    /\ \A i \in 1..Len(Store) :
           LET cell == Store[i]["parent_id"]
           IN  \/ cell = <<>>
               \/ /\ Len(cell) = 2
                  /\ cell[1] \in DOMAIN created
                  /\ cell[2] \in 1..MaxComments

\* the store holds a top-level comment (null parent) and a reply to a comment
C11_Witness ==
    /\ \E i \in 1..Len(Store) :
           /\ Store[i]["parent_id"] = <<>>
           /\ startswith(RawParentId(Store[i]["id"]), "t3_")
    /\ \E i \in 1..Len(Store) :
           /\ Store[i]["parent_id"] # <<>>
           /\ startswith(RawParentId(Store[i]["id"]), "t1_")
           /\ Store[i]["parent_id"] = Tail(RawParentId(Store[i]["id"]))


\* the position of a search term in SEARCH_TERMS
TermIndex(search_term) == CHOOSE k \in 1..Len(SEARCH_TERMS) : SEARCH_TERMS[k] = search_term

\* C12: an empty page ends the paginator of its search term without raising:
\* no later page query of the pass is for that term, the pass goes on (it is
\* not in its failure branch because of the empty page), and the next page
\* query, if any, is for the next search term from the cursor of the pass;
\* a completed pass has seen exactly one empty page per search term
C12_EmptyPageEndsTerm ==
    /\ \A i \in 1..Len(pageQueries) :
           pageQueries[i].size = 0 =>
               LET k == TermIndex(pageQueries[i].search_term)
               IN  /\ \A j \in (i + 1)..Len(pageQueries) :
                          pageQueries[j].search_term # pageQueries[i].search_term
                   /\ i < Len(pageQueries) =>
                          /\ k < Len(SEARCH_TERMS)
                          /\ pageQueries[i + 1].search_term = SEARCH_TERMS[k + 1]
                          /\ pageQueries[i + 1].after = after
                   /\ (i = Len(pageQueries) /\ pc = "pull") =>
                          /\ term = k + 1
                          /\ pageAfter = after
                          /\ page = <<>>
    /\ Succeeded =>
           \A k \in 1..Len(SEARCH_TERMS) :
               Cardinality({i \in 1..Len(pageQueries) :
                               /\ pageQueries[i].search_term = SEARCH_TERMS[k]
                               /\ pageQueries[i].size = 0}) = 1

\* the first term's paginator ended on an empty page after a page of threads,
\* and the second term's paginator has been asked for its first page
C12_Witness ==
    /\ pc = "pull"
    /\ Len(pageQueries) >= 3
    /\ pageQueries[1].search_term = SEARCH_TERMS[1] /\ pageQueries[1].size > 0
    /\ pageQueries[2].search_term = SEARCH_TERMS[1] /\ pageQueries[2].size = 0
    /\ pageQueries[3].search_term = SEARCH_TERMS[2]


IsPrefix(s, t) == Len(s) <= Len(t) /\ SubSeq(t, 1, Len(s)) = s

\* C14: the store is append-only: no step of a pass, of a failed pass, of a
\* retry or of a later run removes the store or rewrites a row it holds (its
\* rows before the step are a prefix of its rows after it), and the
\* deduplication step changes no file but the deduplicated file
C14_AppendOnly ==
    [][/\ fs[outputArg].exists => fs'[outputArg].exists
       /\ IsPrefix(fs[outputArg].rows, fs'[outputArg].rows)
       /\ dedupRuns' # dedupRuns =>
              \A p \in Paths \ {DEDUPLICATED_FILE} : fs'[p] = fs[p]]_vars

\* a retry of a second run appends to a store that already went through a
\* failed pass and a deduplication
C14_Witness ==
    /\ runs = 2
    /\ dedupRuns # <<>>
    /\ attempts > 1
    /\ storeAtStart # <<>>
    /\ Appended
    /\ IsPrefix(storeAtStart, Store)
    /\ IsPrefix(dedupRuns[1].input, Store)


\* C16: at the start of every attempt, for the default and for an overridden
\* store path, the cursor of the pass is the one computed from the rows of
\* the store the pass appends to
C16_CursorOfWrittenStore ==
    pc = "pull" =>
        after = initial_page_boundary([fs EXCEPT ![OUTPUT_FILE] = File(storeAtStart)])


\* C18: within one invocation of main, the cursor a retry starts from is
\* greater than or equal to the cursor the previous attempt started from
C18_CursorNeverBackwards ==
    [][(pc = "try" /\ pc' = "pull" /\ attempts >= 1) => after' >= after]_vars

\* a retry of the first run has started from a cursor later than the first
\* attempt's, which started from the cursor of an empty store
C18_Witness ==
    /\ runs = 1
    /\ attempts >= 2
    /\ pc = "pull"
    /\ after > START_TIME - 1
    /\ storeAtStart # <<>>


\* the threads of the paginator's search term created after its cursor
ThreadsAfter == {t \in DOMAIN created :
                    TitleOf(t) = SEARCH_TERMS[term] /\ created[t] > after}

\* C17: a fully consumed fetch_dq_thread_ids(after) has yielded every thread
\* of its term created strictly after `after`, each exactly once, in ascending
\* order of creation time, for any page size and any creation times
C17_PaginatorComplete ==
    pc = "paginated" =>
        /\ {yielded[i].thread_id : i \in 1..Len(yielded)} = ThreadsAfter
        /\ Len(yielded) = Cardinality(ThreadsAfter)
        /\ \A i, j \in 1..Len(yielded) :
               i < j => yielded[i].thread_created_utc <= yielded[j].thread_created_utc


\* the comment the archive returns for an id, its parent_id normalised
RawComment(id) == correct_parent_id(comment_search(<<id>>)[1])

\* C15 as stated: where a field is both in the raw comment and in the thread
\* descriptor of its reference, the emitted record carries the raw comment's
\* value; the descriptor's value is used only for a field the raw comment lacks
C15_RawCommentWins ==
    pc = "joined" =>
        \A i \in 1..Len(data) :
            LET raw == RawComment(data[i].id)
                thread_info == comment_dict_get(batch, data[i].id)
            IN  /\ DOMAIN data[i] = DOMAIN raw \cup DOMAIN thread_info
                /\ \A k \in DOMAIN data[i] :
                       data[i][k] = IF k \in DOMAIN raw THEN raw[k] ELSE thread_info[k]

\* C15, amended: where a field is both in the raw comment and in the thread
\* descriptor of its reference, the emitted record carries the descriptor's
\* value; the raw comment's value is used only for a field the descriptor lacks
C15_ThreadInfoWins ==
    pc = "joined" =>
        \A i \in 1..Len(data) :
            LET raw == RawComment(data[i].id)
                thread_info == comment_dict_get(batch, data[i].id)
            IN  /\ DOMAIN data[i] = DOMAIN raw \cup DOMAIN thread_info
                /\ \A k \in DOMAIN data[i] :
                       data[i][k] = IF k \in DOMAIN thread_info
                                    THEN thread_info[k] ELSE raw[k]

\* a record was emitted for a comment whose raw form and thread descriptor
\* both have a field, with different values, and one only the raw form has
C15_Witness ==
    /\ pc = "joined"
    /\ \E i \in 1..Len(data) :
           LET raw == RawComment(data[i].id)
               thread_info == comment_dict_get(batch, data[i].id)
           IN  /\ \E k \in DOMAIN raw \cap DOMAIN thread_info :
                      raw[k] # thread_info[k] /\ data[i][k] = thread_info[k]
               /\ data[i].parent_id = raw.parent_id


\* the rows of the output file whose thread_created_utc is an integer
WellFormedRows == SelectSeq(fs[OUTPUT_FILE].rows, LAMBDA row : ~int_raises(row))

\* C13: initial_page_boundary raises no error on an output file with a row
\* whose thread_created_utc is missing or no integer, and returns the cursor
\* computed from the well-formed rows (from START_TIME alone if none is)
C13_MalformedRowsTolerated ==
    /\ pc # "raised"
    /\ pc = "resolved" =>
           after = initial_page_boundary([fs EXCEPT ![OUTPUT_FILE].rows = WellFormedRows])

=============================================================================
